---- MODULE Spec2Model ----
(***************************************************************************)
(* A model of mcp-server-fvwm3: the three capability catalogs (resources,  *)
(* tools, prompts) and the six request handlers that index.ts registers.   *)
(*                                                                         *)
(* JavaScript values are tagged records.  A JavaScript string is a         *)
(* sequence of tokens (chunks of characters); concatenation of strings is  *)
(* concatenation of sequences, so template literals are sequences built    *)
(* from literal chunks and interpolated values.  A path is a sequence of   *)
(* segments.  The file system and the external programs are the only       *)
(* state: the server itself keeps none.                                    *)
(***************************************************************************)
EXTENDS Integers, Sequences, FiniteSets, TLC

VARIABLES
    world,      \* external state: tile-state directory, window manager
    running,    \* the server process is up (index.ts main)
    req,        \* the request handled last
    resp,       \* its completion: a returned value or a thrown error
    calls       \* the adapter invocations made while handling it, in order

vars == <<world, running, req, resp, calls>>

---------------------------------------------------------------------------
(* JavaScript values                                                       *)

Undefined == [t |-> "undefined"]
Str(s) == [t |-> "string", s |-> s]
Num(n) == [t |-> "number", n |-> n]
Obj(m) == [t |-> "object", m |-> m]

\* the empty object literal {}
EmptyObj == Obj([k \in {} |-> Undefined])

\* JavaScript truthiness: undefined, "" and 0 are falsy
Truthy(v) ==
    CASE v.t = "undefined" -> FALSE
      [] v.t = "string" -> v.s # <<>>
      [] v.t = "number" -> v.n # 0
      [] OTHER -> TRUE

\* a || b
OrElse(a, b) == IF Truthy(a) THEN a ELSE b

\* property read obj.k (and one field of a destructuring) on an object
Get(obj, k) == IF k \in DOMAIN obj.m THEN obj.m[k] ELSE Undefined

\* ${v} inside a template literal
ToStr(v) ==
    CASE v.t = "undefined" -> <<"undefined">>
      [] v.t = "string" -> v.s
      [] v.t = "number" -> <<ToString(v.n)>>
      [] OTHER -> <<"[object Object]">>

\* an Error object; stderr is set only on the errors of child_process.exec
Error(name, message) ==
    [t |-> "error", name |-> name, message |-> message, stderr |-> Undefined]

\* ${error}: Error.prototype.toString
ErrToStr(e) == <<e.name, ": ">> \o e.message

\* const x = v; body(x): v is computed once and the body runs on its value
Const(v, Body(_)) == CHOOSE r \in {Body(x) : x \in {v}} : TRUE

\* completion records of a JavaScript block
Return(v) == [kind |-> "return", value |-> v]
Throw(e) == [kind |-> "throw", error |-> e]

---------------------------------------------------------------------------
(* Strings as token sequences                                              *)

WhiteSpace == {" ", "\n"}

\* the first position from i on that holds no white space (Len(s) + 1 if none)
RECURSIVE SkipStart(_, _)
SkipStart(s, i) ==
    IF i <= Len(s) /\ s[i] \in WhiteSpace THEN SkipStart(s, i + 1) ELSE i

\* the last position up to i that holds no white space (0 if none)
RECURSIVE SkipEnd(_, _)
SkipEnd(s, i) ==
    IF i >= 1 /\ s[i] \in WhiteSpace THEN SkipEnd(s, i - 1) ELSE i

\* String.prototype.trim
Trim(str) == Const(str, LAMBDA s : SubSeq(s, SkipStart(s, 1), SkipEnd(s, Len(s))))

\* the positions of a separator token in a string, in increasing order
RECURSIVE Positions(_, _, _)
Positions(s, sep, i) ==
    IF i > Len(s) THEN <<>>
    ELSE IF s[i] = sep THEN <<i>> \o Positions(s, sep, i + 1)
    ELSE Positions(s, sep, i + 1)

\* String.prototype.split(sep) for a one-token separator: a sequence of strings
Split(str, sep) ==
    Const(str, LAMBDA s :
      Const(<<0>> \o Positions(s, sep, 1) \o <<Len(s) + 1>>, LAMBDA cuts :
        [k \in 1..(Len(cuts) - 1) |-> SubSeq(s, cuts[k] + 1, cuts[k + 1] - 1)]))

\* Array.prototype.join(sep) on a sequence of strings
RECURSIVE JoinFrom(_, _, _)
JoinFrom(parts, sep, i) ==
    IF i > Len(parts) THEN <<>>
    ELSE IF i = Len(parts) THEN parts[i]
    ELSE parts[i] \o <<sep>> \o JoinFrom(parts, sep, i + 1)

Join(parts, sep) == Const(parts, LAMBDA ps : JoinFrom(ps, sep, 1))

\* String.prototype.includes
Includes(str, substr) ==
    Const(<<str, substr>>, LAMBDA p :
      \E i \in 0..(Len(p[1]) - Len(p[2])) : SubSeq(p[1], i + 1, i + Len(p[2])) = p[2])

\* String.prototype.startsWith
StartsWith(str, prefix) ==
    Const(str, LAMBDA s : Len(prefix) <= Len(s) /\ SubSeq(s, 1, Len(prefix)) = prefix)

\* s.replace(/"/g, '\\"')
EscapeQuotes(str) ==
    Const(str, LAMBDA s : [i \in DOMAIN s |-> IF s[i] = "\"" THEN "\\\"" ELSE s[i]])

\* the number of occurrences of a token: (s.match(/x/g) || []).length
Count(str, tok) == Const(str, LAMBDA s : Cardinality({i \in DOMAIN s : s[i] = tok}))

---------------------------------------------------------------------------
(* The capability catalogs                                                 *)

\* resources.ts getResources: the resource catalog, in declaration order
getResources ==
    <<
      [uri |-> "fvwm://config/main",
       name |-> "FVWM3 Main Configuration",
       description |-> "The complete FVWM3 configuration file (~/.fvwm/config)",
       mimeType |-> "text/plain"],
      [uri |-> "fvwm://config/repo",
       name |-> "FVWM3 Repository Configuration",
       description |-> "Version-controlled configuration from desktop-settings repo",
       mimeType |-> "text/plain"],
      [uri |-> "fvwm://docs/claude",
       name |-> "CLAUDE.md Architecture Documentation",
       description |-> "Complete architecture documentation for FVWM3 setup",
       mimeType |-> "text/markdown"],
      [uri |-> "fvwm://docs/shortcuts",
       name |-> "Movement Shortcuts Documentation",
       description |-> "Spanish documentation of all movement shortcuts (ATAJOS-MOVIMIENTO.md)",
       mimeType |-> "text/markdown"],
      [uri |-> "fvwm://docs/smart-tiling",
       name |-> "Smart Tiling Technical Documentation",
       description |-> "Complete technical documentation of smart tiling system",
       mimeType |-> "text/markdown"],
      [uri |-> "fvwm://docs/readme",
       name |-> "FVWM3 Configuration README",
       description |-> "User-facing documentation and command reference",
       mimeType |-> "text/markdown"],
      [uri |-> "fvwm://scripts/smart-tile",
       name |-> "Smart Tiling Script",
       description |-> "Main smart tiling implementation script",
       mimeType |-> "text/x-shellscript"],
      [uri |-> "fvwm://scripts/maximize-monitor",
       name |-> "Maximize Current Monitor Script",
       description |-> "Monitor-aware maximize script",
       mimeType |-> "text/x-shellscript"],
      [uri |-> "fvwm://scripts/monitor-setup",
       name |-> "Monitor Setup Script",
       description |-> "Multi-monitor configuration script",
       mimeType |-> "text/x-shellscript"],
      [uri |-> "fvwm://scripts/toggle-keyboard",
       name |-> "Keyboard Layout Toggle Script",
       description |-> "Toggle between US and LATAM keyboard layouts",
       mimeType |-> "text/x-shellscript"],
      [uri |-> "fvwm://state/monitors",
       name |-> "Current Monitor Layout",
       description |-> "Current monitor configuration from xrandr",
       mimeType |-> "text/plain"],
      [uri |-> "fvwm://state/windows",
       name |-> "Active Windows",
       description |-> "List of all active windows with geometry",
       mimeType |-> "application/json"],
      [uri |-> "fvwm://state/current-desktop",
       name |-> "Current Desktop State",
       description |-> "Current desktop and page information",
       mimeType |-> "application/json"],
      [uri |-> "fvwm://state/tile-states",
       name |-> "Tile State Files",
       description |-> "Current smart tiling state for all windows",
       mimeType |-> "application/json"],
      [uri |-> "fvwm://logs/smart-tile",
       name |-> "Smart Tiling Debug Log",
       description |-> "Debug log from smart tiling operations",
       mimeType |-> "text/plain"]
    >>

\* a prompt catalog that lists one name twice
getPromptsRepeated ==
    <<
      [name |-> "create-menu",
       description |-> "Generate an FVWM menu configuration",
       arguments |-> <<
         [name |-> "menu_name", description |-> "Name for the menu (e.g., 'WindowOpsMenu')", required |-> TRUE],
         [name |-> "menu_items", description |-> "Comma-separated list of menu items", required |-> TRUE]>>],
      [name |-> "create-menu",
       description |-> "Generate an FVWM menu",
       arguments |-> <<
         [name |-> "menu_name", description |-> "Name for the menu", required |-> TRUE]>>]
    >>

\* resources.ts getPrompts: the prompt catalog, in declaration order
getPrompts ==
    <<
      [name |-> "create-window-function",
       description |-> "Generate a new FVWM window manipulation function",
       arguments |-> <<
         [name |-> "function_name", description |-> "Name for the new function (e.g., 'MoveToCenterAndResize')", required |-> TRUE],
         [name |-> "description", description |-> "What the function should do", required |-> TRUE]>>],
      [name |-> "add-keybinding",
       description |-> "Generate a keybinding with conflict checking",
       arguments |-> <<
         [name |-> "key_combo", description |-> "Key combination (e.g., 'Super_L+m', 'Alt+Shift+w')", required |-> TRUE],
         [name |-> "action", description |-> "What the keybinding should do", required |-> TRUE],
         [name |-> "context", description |-> "Context where binding applies (default: 'A' for all)", required |-> FALSE]>>],
      [name |-> "create-tiling-script",
       description |-> "Generate a bash script for window tiling operations",
       arguments |-> <<
         [name |-> "script_name", description |-> "Name for the script (e.g., 'quarter-tile')", required |-> TRUE],
         [name |-> "tiling_behavior", description |-> "Describe the tiling behavior (e.g., 'tile to top-left quarter')", required |-> TRUE]>>],
      [name |-> "debug-fvwm-issue",
       description |-> "Guide for debugging FVWM configuration issues",
       arguments |-> <<
         [name |-> "issue_description", description |-> "Describe the problem you're experiencing", required |-> TRUE]>>],
      [name |-> "create-menu",
       description |-> "Generate an FVWM menu configuration",
       arguments |-> <<
         [name |-> "menu_name", description |-> "Name for the menu (e.g., 'WindowOpsMenu')", required |-> TRUE],
         [name |-> "menu_items", description |-> "Comma-separated list of menu items", required |-> TRUE]>>]
    >>

\* tools.ts getTools: the tool catalog, in declaration order
getTools ==
    <<
      [name |-> "fvwm_execute",
       description |-> "Execute an FVWM command using FvwmCommand",
       inputSchema |-> [
         type |-> "object",
         properties |-> <<
           [name |-> "command", type |-> "string"]>>,
         required |-> <<"command">>]],
      [name |-> "fvwm_get_window_info",
       description |-> "Get detailed information about a specific window or all windows",
       inputSchema |-> [
         type |-> "object",
         properties |-> <<>>,
         required |-> <<>>]],
      [name |-> "fvwm_get_monitor_layout",
       description |-> "Get current monitor layout and geometry from xrandr",
       inputSchema |-> [
         type |-> "object",
         properties |-> <<>>,
         required |-> <<>>]],
      [name |-> "fvwm_test_function",
       description |-> "Check if a specific FVWM function exists in the configuration",
       inputSchema |-> [
         type |-> "object",
         properties |-> <<
           [name |-> "function_name", type |-> "string"]>>,
         required |-> <<"function_name">>]],
      [name |-> "fvwm_restart",
       description |-> "Restart FVWM3 to apply configuration changes",
       inputSchema |-> [
         type |-> "object",
         properties |-> <<>>,
         required |-> <<>>]],
      [name |-> "fvwm_validate_config",
       description |-> "Validate FVWM3 configuration syntax without restarting",
       inputSchema |-> [
         type |-> "object",
         properties |-> <<>>,
         required |-> <<>>]],
      [name |-> "fvwm_get_keybindings",
       description |-> "List all keyboard bindings from the configuration",
       inputSchema |-> [
         type |-> "object",
         properties |-> <<>>,
         required |-> <<>>]],
      [name |-> "smart_tile_debug",
       description |-> "View the smart tiling debug log (last N lines)",
       inputSchema |-> [
         type |-> "object",
         properties |-> <<>>,
         required |-> <<>>]],
      [name |-> "smart_tile_state",
       description |-> "View or clear smart tiling state for windows",
       inputSchema |-> [
         type |-> "object",
         properties |-> <<
           [name |-> "action", type |-> "string", enum |-> <<"view", "clear">>],
           [name |-> "window_id", type |-> "string"]>>,
         required |-> <<"action">>]],
      [name |-> "fvwm_get_desktop_info",
       description |-> "Get information about the current desktop and page",
       inputSchema |-> [
         type |-> "object",
         properties |-> <<>>,
         required |-> <<>>]]
    >>

\* the keys of a catalog as a set
Keys(catalog, field) == {catalog[i][field] : i \in DOMAIN catalog}

ResourceUris == Keys(getResources, "uri")
ToolNames == Keys(getTools, "name")
PromptNames == Keys(getPrompts, "name")

\* the descriptor a key names
Descriptor(catalog, field, key) ==
    catalog[CHOOSE i \in DOMAIN catalog : catalog[i][field] = key]

\* the names a sequence of records lists
Range(seq) == {seq[i] : i \in DOMAIN seq}

---------------------------------------------------------------------------
(* Paths                                                                   *)

\* os.homedir()
homedir == <<"/", "home", "/", "user">>

\* the segments of a path string, "." and empty segments dropped and ".."
\* resolved against the segments before it (path.normalize)
RECURSIVE NormalizeFrom(_, _, _)
NormalizeFrom(segs, i, acc) ==
    IF i > Len(segs) THEN acc
    ELSE IF segs[i] = <<>> \/ segs[i] = <<".">> THEN NormalizeFrom(segs, i + 1, acc)
    ELSE IF segs[i] = <<"..">>
        THEN NormalizeFrom(segs, i + 1,
                           IF acc = <<>> THEN acc ELSE SubSeq(acc, 1, Len(acc) - 1))
    ELSE NormalizeFrom(segs, i + 1, Append(acc, segs[i]))

Segments(p) == Const(Split(p, "/"), LAMBDA segs : NormalizeFrom(segs, 1, <<>>))

\* the path string of a sequence of segments of an absolute path
PathStr(segs) == <<"/">> \o Join(segs, "/")

\* path.join(a, b) for an absolute a
pathJoin(a, b) == PathStr(Segments(a \o <<"/">> \o b))

\* the paths the handlers build
ConfigPath == pathJoin(homedir, <<".fvwm", "/", "config">>)
DebugLogPath == pathJoin(homedir, <<".fvwm", "/", "smart-tile-debug.log">>)
StateDirPath == pathJoin(homedir, <<".fvwm", "/", "tile-state">>)

\* a path lies below a directory
Under(segs, dir) == Len(segs) > Len(dir) /\ SubSeq(segs, 1, Len(dir)) = dir

\* a path names an entry of the tile-state directory itself
InStateDir(path) ==
    Const(<<Segments(path), Segments(StateDirPath)>>, LAMBDA p :
      Len(p[1]) = Len(p[2]) + 1 /\ Under(p[1], p[2]))

\* the last segment of a path: the file's name
BaseName(path) == Const(Segments(path), LAMBDA segs : segs[Len(segs)])

---------------------------------------------------------------------------
(* The external world and the adapters                                     *)

\* the number of windows that can own a tile-state file
MaxTileFiles == 2

\* the file names of ~/.fvwm/tile-state, in the order ls prints them
TileNames == [i \in 1..MaxTileFiles |-> <<"0x" \o ToString(i)>>]

\* what the smart-tile script writes for a window (with its trailing newline)
TileContent(name) ==
    IF name = TileNames[1] THEN <<"left", "\n">> ELSE <<"right", " ", "HDMI-0", "\n">>

\* outcomes of an external process: exit status, output, and for FvwmCommand
\* whether the window manager got the command before FvwmCommand exited
ExecOutcomes ==
    { [ok |-> TRUE, stdout |-> <<"out", "\n">>, stderr |-> <<>>, delivered |-> TRUE],
      [ok |-> TRUE, stdout |-> <<"a", "\n", "b", "\n">>, stderr |-> <<>>, delivered |-> TRUE],
      [ok |-> TRUE, stdout |-> <<>>, stderr |-> <<"warn">>, delivered |-> TRUE],
      [ok |-> TRUE, stdout |-> <<>>, stderr |-> <<>>, delivered |-> TRUE],
      [ok |-> FALSE, stdout |-> <<>>, stderr |-> <<>>, delivered |-> TRUE],
      [ok |-> FALSE, stdout |-> <<>>, stderr |-> <<" ", "\n">>, delivered |-> FALSE],
      [ok |-> FALSE, stdout |-> <<>>, stderr |-> <<"not found", "\n">>, delivered |-> FALSE] }

\* contents of the files outside the tile-state directory
FileTexts ==
    { <<"DestroyFunc ", "Smart", "Tile", "Left", "\n",
        "Key ", "Left", " A 4 ", "Smart", "Tile", "Left", "\n">>,
      <<"AddToFun ", "X", "\n", "Key ", "m", " A 4 ", "Exec ", "\"", "xterm", "\n">>,
      <<>> }

\* outcomes of reading such a file
FileOutcomes ==
    {[ok |-> TRUE, text |-> t] : t \in FileTexts} \cup {[ok |-> FALSE, text |-> <<>>]}

\* what the environment answers during one request: at most one external
\* process and one file outside the tile-state directory are involved
Oracles ==
    {[exec |-> e, file |-> [ok |-> FALSE, text |-> <<>>]] : e \in ExecOutcomes}
    \cup
    {[exec |-> [ok |-> FALSE, stdout |-> <<>>, stderr |-> <<>>, delivered |-> FALSE],
      file |-> f] : f \in FileOutcomes}

\* the error fs.readFile rejects with
FileError(path) ==
    Error("Error", <<"ENOENT: no such file or directory, open '">> \o path \o <<"'">>)

\* the error child_process.exec rejects with: it carries stdout and stderr
ExecError(cmd, out) ==
    [t |-> "error", name |-> "Error",
     message |-> <<"Command failed: ">> \o cmd \o <<"\n">> \o out.stderr,
     stderr |-> Str(out.stderr)]

\* the record of an adapter call: what was asked, whether it ended well, and
\* what came back (the file's text or the process's stdout, and its stderr)
Call(op, arg, res) ==
    [op |-> op, arg |-> arg, ok |-> res.kind = "return",
     out |-> IF res.kind = "throw" THEN Undefined
             ELSE IF op = "exec" THEN res.value.stdout ELSE res.value,
     stderr |-> IF res.kind = "throw" THEN res.error.stderr
                ELSE IF op = "exec" THEN res.value.stderr ELSE Undefined]

\* one adapter step: its completion, the record of the call, the world after
Step(res0, op, arg, w) ==
    Const(res0, LAMBDA res : [res |-> res, call |-> Call(op, arg, res), world |-> w])

\* fs/promises readFile(path, "utf-8")
readFile(path0, w, o) ==
    Const(path0, LAMBDA path :
      IF InStateDir(path)
      THEN IF w.dir /\ BaseName(path) \in DOMAIN w.tile
           THEN Step(Return(Str(w.tile[BaseName(path)])), "readFile", path, w)
           ELSE Step(Throw(FileError(path)), "readFile", path, w)
      ELSE IF o.file.ok
           THEN Step(Return(Str(o.file.text)), "readFile", path, w)
           ELSE Step(Throw(FileError(path)), "readFile", path, w))

\* what ls prints for the tile-state directory: one name per line
RECURSIVE Listing(_, _)
Listing(i, w) ==
    IF i > MaxTileFiles THEN <<>>
    ELSE (IF TileNames[i] \in DOMAIN w.tile THEN TileNames[i] \o <<"\n">> ELSE <<>>)
         \o Listing(i + 1, w)

\* the argument FvwmCommand gets from the shell for "...": the quotes
\* removed and \" read as "
Unquote(str) ==
    Const(str, LAMBDA s :
      [i \in 1..(Len(s) - 2) |-> IF s[i + 1] = "\\\"" THEN "\"" ELSE s[i + 1]])

\* an FVWM command that only reports: it leaves the window manager as it is
IsQuery(c) == \E i \in DOMAIN c : c[i] = "Echo "

\* the window manager after a command line of FvwmCommand ran
Deliver(cmd, w, out) ==
    Const(Unquote(Tail(cmd)), LAMBDA c :
      IF out.delivered /\ ~IsQuery(c) THEN [w EXCEPT !.wm = @ \cup {c}] ELSE w)

\* the tile-state directory after rm -f <target>
Remove(target, w) ==
    IF ~InStateDir(target) \/ ~w.dir THEN w
    ELSE IF BaseName(target) = <<"*">> THEN [w EXCEPT !.tile = [n \in {} |-> <<>>]]
    ELSE [w EXCEPT !.tile = [n \in DOMAIN w.tile \ {BaseName(target)} |-> w.tile[n]]]

\* the outcome the environment chose for an external process
FromOracle(cmd, o) ==
    IF o.exec.ok
    THEN Return([stdout |-> Str(o.exec.stdout), stderr |-> Str(o.exec.stderr)])
    ELSE Throw(ExecError(cmd, o.exec))

\* an external process that ends well with the given output
Output(stdout) == Return([stdout |-> Str(stdout), stderr |-> Str(<<>>)])

\* promisify(exec)(cmd): the command line run by the shell
execAsync(cmd0, w, o) ==
    Const(cmd0, LAMBDA cmd :
      CASE Head(cmd) = "ls -1 " ->
             \* ls -1 <dir> 2>/dev/null || echo ""
             IF w.dir /\ Segments(SubSeq(cmd, 2, Len(cmd) - 1)) = Segments(StateDirPath)
             THEN Step(Output(Listing(1, w)), "exec", cmd, w)
             ELSE Step(Output(<<"\n">>), "exec", cmd, w)
        [] Head(cmd) = "ls " ->
             IF w.dir /\ Segments(Tail(cmd)) = Segments(StateDirPath)
             THEN Step(Output(Listing(1, w)), "exec", cmd, w)
             ELSE Step(Throw(ExecError(cmd,
                          [stderr |-> <<"ls: cannot access ">> \o Tail(cmd)])),
                       "exec", cmd, w)
        [] Head(cmd) = "rm -f " ->
             IF InStateDir(Tail(cmd))
             THEN Step(Output(<<>>), "exec", cmd, Remove(Tail(cmd), w))
             ELSE Step(FromOracle(cmd, o), "exec", cmd, w)
        [] Head(cmd) = "FvwmCommand " ->
             Step(FromOracle(cmd, o), "exec", cmd, Deliver(cmd, w, o.exec))
        [] OTHER -> Step(FromOracle(cmd, o), "exec", cmd, w))

---------------------------------------------------------------------------
(* tools.ts executeTool                                                    *)

\* what a handler leaves: its completion, the adapter calls it made, the world
Done(res, cs, w) == [res |-> res, calls |-> cs, world |-> w]

\* { content: [{ type: "text", text }] }
TextResult(text) == [content |-> <<[type |-> "text", text |-> text]>>]

\* { content: [{ type: "text", text }], isError: true }
ErrorResult(text) == [content |-> <<[type |-> "text", text |-> text]>>, isError |-> TRUE]

\* a case that awaits one adapter call and returns Text(value) when it ends
\* well; an error of the call leaves the case
AwaitThen(step, Text(_)) ==
    Const(step, LAMBDA r :
      IF r.res.kind = "throw" THEN Done(r.res, <<r.call>>, r.world)
      ELSE Done(Return(TextResult(Text(r.res.value))), <<r.call>>, r.world))

\* a case that awaits one adapter call inside its own try: an error of the
\* call returns Caught(error)
AwaitTry(step, Text(_), Caught(_)) ==
    Const(step, LAMBDA r :
      IF r.res.kind = "throw" THEN Done(Caught(r.res.error), <<r.call>>, r.world)
      ELSE Done(Return(TextResult(Text(r.res.value))), <<r.call>>, r.world))

\* a catch that takes any stderr for an error text, blank or not
executeCatchNoTrim(error) ==
    IF Truthy(error.stderr)
    THEN Throw(error)
    ELSE Return(TextResult(<<"Command executed (no output)">>))

\* case "fvwm_execute", the catch of its inner try: an error counts only if
\* its stderr has text
executeCatch(error) ==
    IF Truthy(error.stderr) /\ Truthy(Str(Trim(error.stderr.s)))
    THEN Throw(error)
    ELSE Return(TextResult(<<"Command executed (no output)">>))

\* case "fvwm_execute"
fvwm_execute(args, w, o) ==
    Const(Get(args, "command"), LAMBDA command :
      IF command.t # "string"
      THEN \* command.replace throws a TypeError inside the inner try
           Done(executeCatch(Error("TypeError",
                    <<"Cannot read properties of ">> \o ToStr(command))), <<>>, w)
      ELSE AwaitTry(execAsync(<<"FvwmCommand ", "\"">> \o EscapeQuotes(command.s)
                              \o <<"\"">>, w, o),
                    LAMBDA out : OrElse(OrElse(out.stdout, out.stderr),
                                        Str(<<"Command executed successfully">>)).s,
                    executeCatch))

\* case "fvwm_get_window_info"
fvwm_get_window_info(args, w, o) ==
    LET window_id == Get(args, "window_id")
        fields == " class=$[w.class] desk=$[w.desk] x=$[w.x] y=$[w.y] w=$[w.width] h=$[w.height]"
        cmd == IF Truthy(window_id)
               THEN <<"FvwmCommand ", "\"", "WindowId ">> \o ToStr(window_id)
                    \o <<" ", "Echo ", "id=$[w.id] name=", "\\\"", "$[w.name]", "\\\"",
                         fields, "\"">>
               ELSE <<"FvwmCommand ", "'", "All (CurrentPage) ", "Echo ",
                      "id=$[w.id] name=", "\"", "$[w.name]", "\"", fields, "'">>
    IN  AwaitThen(execAsync(cmd, w, o),
                  LAMBDA out : OrElse(out.stdout, Str(<<"No windows found">>)).s)

\* case "fvwm_get_monitor_layout"
fvwm_get_monitor_layout(args, w, o) ==
    AwaitThen(execAsync(<<"xrandr --query | grep ' connected'">>, w, o),
              LAMBDA out : out.stdout.s)

\* case "fvwm_test_function", the text for a configuration
testFunctionText(config, function_name) ==
    Const(ToStr(function_name), LAMBDA fn :
      IF \/ Includes(config, <<"DestroyFunc ">> \o fn)
         \/ Includes(config, <<"AddToFunc ">> \o fn)
      THEN <<"Function '">> \o fn \o <<"' exists in configuration">>
      ELSE <<"Function '">> \o fn \o <<"' NOT found in configuration">>)

\* case "fvwm_test_function"
fvwm_test_function(args, w, o) ==
    AwaitThen(readFile(ConfigPath, w, o),
              LAMBDA config : testFunctionText(config.s, Get(args, "function_name")))

\* case "fvwm_restart": a failure of the command is ignored
fvwm_restart(args, w, o) ==
    AwaitTry(execAsync(<<"FvwmCommand ", "\"", "Restart", "\"">>, w, o),
             LAMBDA out : <<"FVWM3 restart command sent">>,
             LAMBDA error : Return(TextResult(<<"FVWM3 restart command sent">>)))

\* case "fvwm_validate_config", the checks of one line
LineErrors(line, lineNum) ==
    Const(Trim(line), LAMBDA trimmed :
      (IF Count(trimmed, "\"") % 2 # 0
       THEN << <<"Line ", ToString(lineNum), ": Unmatched double quotes">> >>
       ELSE <<>>)
      \o
      (IF trimmed # <<>>
          /\ Head(trimmed) \in {"DestroyFun ", "AddToFun ", "DestroyMen ", "AddToMen "}
       THEN << <<"Line ", ToString(lineNum), ": Possible typo in command">> >>
       ELSE <<>>))

\* case "fvwm_validate_config", lines.forEach
RECURSIVE ConfigErrors(_, _)
ConfigErrors(lines, idx) ==
    IF idx > Len(lines) THEN <<>>
    ELSE LineErrors(lines[idx], idx) \o ConfigErrors(lines, idx + 1)

\* case "fvwm_validate_config", the text for a configuration
validateText(config) ==
    Const(Split(config, "\n"), LAMBDA lines :
      Const(ConfigErrors(lines, 1), LAMBDA errors :
        IF Len(errors) = 0
        THEN <<"Configuration appears valid (", ToString(Len(lines)), " lines checked)">>
        ELSE <<"Found ", ToString(Len(errors)), " potential issues:", "\n">>
             \o Join(errors, "\n")))

\* case "fvwm_validate_config", its catch: a failed read is reported as text
validateCatch(error) ==
    Return(TextResult(<<"Error reading config: ">> \o ErrToStr(error)))

\* case "fvwm_validate_config"
fvwm_validate_config(args, w, o) ==
    Const(OrElse(Get(args, "config_path"), Str(ConfigPath)), LAMBDA configPath :
      IF configPath.t # "string"
      THEN Done(validateCatch(Error("TypeError",
                    <<"The path argument must be of type string">>)), <<>>, w)
      ELSE AwaitTry(readFile(configPath.s, w, o),
                    LAMBDA config : validateText(config.s),
                    validateCatch))

\* case "fvwm_get_keybindings", the text for a configuration
keybindingsText(config, filter) ==
    LET IsKey(line) == StartsWith(Trim(line), <<"Key ">>)
        Matches(line) == ~Truthy(filter) \/ Includes(line, ToStr(filter))
    IN  Const(SelectSeq(SelectSeq(Split(config, "\n"), IsKey), Matches), LAMBDA bindings :
          IF Len(bindings) > 0 THEN Join(bindings, "\n")
          ELSE <<"No keybindings found">>
               \o (IF Truthy(filter)
                   THEN <<" matching '">> \o ToStr(filter) \o <<"'">>
                   ELSE <<>>))

\* case "fvwm_get_keybindings"
fvwm_get_keybindings(args, w, o) ==
    AwaitThen(readFile(ConfigPath, w, o),
              LAMBDA config : keybindingsText(config.s, Get(args, "filter")))

\* the default of smart_tile_debug's lines argument
DefaultLines == 50

\* case "smart_tile_debug": a failed tail is reported as text
smart_tile_debug(args, w, o) ==
    AwaitTry(execAsync(<<"tail -n ">>
                       \o ToStr(OrElse(Get(args, "lines"), Num(DefaultLines)))
                       \o <<" ">> \o DebugLogPath, w, o),
             LAMBDA out : OrElse(out.stdout, Str(<<"Debug log is empty">>)).s,
             LAMBDA error : Return(TextResult(<<"Debug log not found or empty">>)))

\* case "smart_tile_state", the loop over the listed files: the states read,
\* or the first error, with the reads made
RECURSIVE ReadStates(_, _, _, _, _, _)
ReadStates(files, i, w, o, states, cs) ==
    IF i > Len(files) THEN Done(Return(states), cs, w)
    ELSE IF files[i] = <<>> THEN ReadStates(files, i + 1, w, o, states, cs)
    ELSE Const(readFile(pathJoin(StateDirPath, files[i]), w, o), LAMBDA r :
           IF r.res.kind = "throw" THEN Done(r.res, Append(cs, r.call), w)
           ELSE ReadStates(files, i + 1, w, o,
                           Append(states, files[i] \o <<": ">> \o Trim(r.res.value.s)),
                           Append(cs, r.call)))

\* case "smart_tile_state", action "view", the catch of its try: every
\* failure reads as no states
viewCatch(error) == Return(TextResult(<<"No tile states found">>))

\* case "smart_tile_state", action "view" without a window id
tile_state_view_all(w, o) ==
    Const(execAsync(<<"ls -1 ">> \o StateDirPath \o <<" 2>/dev/null || echo \"\"">>, w, o),
          LAMBDA l :
      IF l.res.kind = "throw" THEN Done(viewCatch(l.res.error), <<l.call>>, l.world)
      ELSE IF Trim(l.res.value.stdout.s) = <<>>
      THEN Done(Return(TextResult(<<"No tile states found">>)), <<l.call>>, l.world)
      ELSE Const(ReadStates(Split(Trim(l.res.value.stdout.s), "\n"), 1, l.world, o,
                            <<>>, <<l.call>>), LAMBDA rs :
             IF rs.res.kind = "throw"
             THEN Done(viewCatch(rs.res.error), rs.calls, rs.world)
             ELSE Done(Return(TextResult(Join(rs.res.value, "\n"))), rs.calls, rs.world)))

\* case "smart_tile_state", action "view"
tile_state_view(window_id, w, o) ==
    IF Truthy(window_id)
    THEN IF window_id.t # "string"
         THEN \* path.join throws a TypeError inside the try
              Done(viewCatch(Error("TypeError",
                       <<"The path argument must be of type string">>)), <<>>, w)
         ELSE AwaitTry(readFile(pathJoin(StateDirPath, window_id.s), w, o),
                       LAMBDA state : <<"Window ">> \o window_id.s \o <<": ">> \o state.s,
                       viewCatch)
    ELSE tile_state_view_all(w, o)

\* case "smart_tile_state", action "clear", the catch of its try: a failed
\* rm is reported as text
clearCatch(error) ==
    Return(TextResult(<<"Error clearing states: ">> \o ErrToStr(error)))

\* case "smart_tile_state", action "clear"
tile_state_clear(window_id, w, o) ==
    IF Truthy(window_id)
    THEN IF window_id.t # "string"
         THEN Done(clearCatch(Error("TypeError",
                       <<"The path argument must be of type string">>)), <<>>, w)
         ELSE AwaitTry(execAsync(<<"rm -f ">> \o pathJoin(StateDirPath, window_id.s), w, o),
                       LAMBDA out : <<"Cleared state for window ">> \o window_id.s,
                       clearCatch)
    ELSE AwaitTry(execAsync(<<"rm -f ">> \o StateDirPath \o <<"/", "*">>, w, o),
                  LAMBDA out : <<"Cleared all tile states">>,
                  clearCatch)

\* a smart_tile_state that takes every action but "clear" for "view"
smart_tile_state_view_default(args, w, o) ==
    Const(<<Get(args, "action"), Get(args, "window_id")>>, LAMBDA a :
      IF a[1] = Str(<<"clear">>) THEN tile_state_clear(a[2], w, o)
      ELSE tile_state_view(a[2], w, o))

\* case "smart_tile_state"
smart_tile_state(args, w, o) ==
    Const(<<Get(args, "action"), Get(args, "window_id")>>, LAMBDA a :
      IF a[1] = Str(<<"view">>) THEN tile_state_view(a[2], w, o)
      ELSE IF a[1] = Str(<<"clear">>) THEN tile_state_clear(a[2], w, o)
      ELSE Done(Throw(Error("Error", <<"Unknown action: ">> \o ToStr(a[1]))), <<>>, w))

\* case "fvwm_get_desktop_info"
fvwm_get_desktop_info(args, w, o) ==
    AwaitThen(execAsync(<<"FvwmCommand ", "\"", "Echo ",
                          "desk=$[desk.n] page=$[page.nx]x$[page.ny] deskname=",
                          "\\\"", "$[desk.name$[desk.n]]", "\\\"", "\"">>, w, o),
              LAMBDA out : OrElse(out.stdout, Str(<<"Unable to get desktop info">>)).s)

\* the case labels of executeTool's switch (name)
toolCases ==
    { "fvwm_execute", "fvwm_get_window_info", "fvwm_get_monitor_layout",
      "fvwm_test_function", "fvwm_restart", "fvwm_validate_config",
      "fvwm_get_keybindings", "smart_tile_debug", "smart_tile_state",
      "fvwm_get_desktop_info" }

\* the default of the switch: no tool of that name
unknownTool(name, w) ==
    Done(Throw(Error("Error", <<"Unknown tool: ", name>>)), <<>>, w)


\* a switch without the case of the last tool of the catalog
toolSwitchNoDesktop(name, args, w, o) ==
    CASE name = "fvwm_execute" -> fvwm_execute(args, w, o)
      [] name = "fvwm_get_window_info" -> fvwm_get_window_info(args, w, o)
      [] name = "fvwm_get_monitor_layout" -> fvwm_get_monitor_layout(args, w, o)
      [] name = "fvwm_test_function" -> fvwm_test_function(args, w, o)
      [] name = "fvwm_restart" -> fvwm_restart(args, w, o)
      [] name = "fvwm_validate_config" -> fvwm_validate_config(args, w, o)
      [] name = "fvwm_get_keybindings" -> fvwm_get_keybindings(args, w, o)
      [] name = "smart_tile_debug" -> smart_tile_debug(args, w, o)
      [] name = "smart_tile_state" -> smart_tile_state(args, w, o)
      [] OTHER -> unknownTool(name, w)

\* the switch of executeTool
toolSwitch(name, args, w, o) ==
    CASE name = "fvwm_execute" -> fvwm_execute(args, w, o)
      [] name = "fvwm_get_window_info" -> fvwm_get_window_info(args, w, o)
      [] name = "fvwm_get_monitor_layout" -> fvwm_get_monitor_layout(args, w, o)
      [] name = "fvwm_test_function" -> fvwm_test_function(args, w, o)
      [] name = "fvwm_restart" -> fvwm_restart(args, w, o)
      [] name = "fvwm_validate_config" -> fvwm_validate_config(args, w, o)
      [] name = "fvwm_get_keybindings" -> fvwm_get_keybindings(args, w, o)
      [] name = "smart_tile_debug" -> smart_tile_debug(args, w, o)
      [] name = "smart_tile_state" -> smart_tile_state(args, w, o)
      [] name = "fvwm_get_desktop_info" -> fvwm_get_desktop_info(args, w, o)
      [] OTHER -> unknownTool(name, w)

\* an executeTool without its catch: the error leaves the handler
toolCatchRethrow(name, error) == Throw(error)

\* the catch around the switch: every error becomes an error-flagged result
toolCatch(name, error) ==
    Return(ErrorResult(<<"Error executing tool '", name, "': ">> \o ErrToStr(error)))

\* executeTool(name, args)
executeTool(name, args, w, o) ==
    Const(toolSwitch(name, args, w, o), LAMBDA r :
      IF r.res.kind = "throw"
      THEN Done(toolCatch(name, r.res.error), r.calls, r.world)
      ELSE r)

---------------------------------------------------------------------------
(* resources.ts readResource                                               *)

\* { contents: [{ uri, mimeType, text }] }
Contents(uri, mimeType, text) ==
    [contents |-> <<[uri |-> uri, mimeType |-> mimeType, text |-> text]>>]

\* JSON.stringify of a string: quoted, with " and line ends escaped
JsonString(s) ==
    <<"\"">>
    \o [i \in DOMAIN s |-> CASE s[i] = "\"" -> "\\\""
                             [] s[i] = "\n" -> "\\n"
                             [] OTHER -> s[i]]
    \o <<"\"">>

\* the members of a JSON array or object, one per line at the given indent
RECURSIVE JsonLines(_, _, _)
JsonLines(items, i, indent) ==
    IF i > Len(items) THEN <<>>
    ELSE <<indent>> \o items[i]
         \o (IF i < Len(items) THEN <<",", "\n">> ELSE <<>>)
         \o JsonLines(items, i + 1, indent)

\* JSON.stringify({ windows: lines }, null, 2)
JsonWindows(lines) ==
    Const([i \in DOMAIN lines |-> JsonString(lines[i])], LAMBDA items :
      <<"{", "\n", "  ", "\"windows\"", ": ", "[", "\n">>
      \o JsonLines(items, 1, "    ")
      \o <<"\n", "  ", "]", "\n", "}">>)

\* JSON.stringify({ state: s }, null, 2)
JsonState(s) ==
    <<"{", "\n", "  ", "\"state\"", ": ">> \o JsonString(s) \o <<"\n", "}">>

\* JSON.stringify(states, null, 2) for a Record<string, string> given as its
\* <<key, value>> pairs in insertion order
JsonRecord(pairs) ==
    Const([i \in DOMAIN pairs |->
             JsonString(pairs[i][1]) \o <<": ">> \o JsonString(pairs[i][2])],
          LAMBDA items :
      IF items = <<>> THEN <<"{}">>
      ELSE <<"{", "\n">> \o JsonLines(items, 1, "  ") \o <<"\n", "}">>)

\* a case that awaits one adapter call and returns one content block with
\* Text(value) when it ends well; an error of the call leaves the case
ReadThen(step, uri, mimeType, Text(_)) ==
    Const(step, LAMBDA r :
      IF r.res.kind = "throw" THEN Done(r.res, <<r.call>>, r.world)
      ELSE Done(Return(Contents(uri, mimeType, Text(r.res.value))), <<r.call>>, r.world))

\* the cases that read one file below the home directory
fileResource(uri, rel, mimeType, w, o) ==
    ReadThen(readFile(pathJoin(homedir, rel), w, o), uri, mimeType,
             LAMBDA content : content.s)

\* case "fvwm://state/monitors"
state_monitors(uri, w, o) ==
    ReadThen(execAsync(<<"xrandr --query">>, w, o), uri, "text/plain",
             LAMBDA out : out.stdout.s)

\* a windows case that keeps the mimeType of the case above it
state_windows_plain(uri, w, o) ==
    ReadThen(execAsync(<<"FvwmCommand ", "\"", "All (CurrentPage) ", "Echo ",
                         "$[w.id] $[w.name] $[w.x] $[w.y] $[w.width] $[w.height]", "\"">>,
                       w, o),
             uri, "text/plain",
             LAMBDA out : JsonWindows(Split(Trim(out.stdout.s), "\n")))

\* case "fvwm://state/windows"
state_windows(uri, w, o) ==
    ReadThen(execAsync(<<"FvwmCommand ", "\"", "All (CurrentPage) ", "Echo ",
                         "$[w.id] $[w.name] $[w.x] $[w.y] $[w.width] $[w.height]", "\"">>,
                       w, o),
             uri, "application/json",
             LAMBDA out : JsonWindows(Split(Trim(out.stdout.s), "\n")))

\* a current-desktop case that asks by switching to the desk
state_current_desktop_goto(uri, w, o) ==
    ReadThen(execAsync(<<"FvwmCommand ", "\"", "GotoDesk 0 0", "\"">>, w, o),
             uri, "application/json",
             LAMBDA out : JsonState(Trim(out.stdout.s)))

\* case "fvwm://state/current-desktop"
state_current_desktop(uri, w, o) ==
    ReadThen(execAsync(<<"FvwmCommand ", "\"", "Echo ",
                         "desk=$[desk.n] page=$[page.nx]x$[page.ny]", "\"">>, w, o),
             uri, "application/json",
             LAMBDA out : JsonState(Trim(out.stdout.s)))

\* case "fvwm://state/tile-states", the loop over the listed files
RECURSIVE ReadTileStates(_, _, _, _, _, _)
ReadTileStates(files, i, w, o, states, cs) ==
    IF i > Len(files) THEN Done(Return(states), cs, w)
    ELSE IF files[i] = <<>> THEN ReadTileStates(files, i + 1, w, o, states, cs)
    ELSE Const(readFile(pathJoin(StateDirPath, files[i]), w, o), LAMBDA r :
           IF r.res.kind = "throw" THEN Done(r.res, Append(cs, r.call), w)
           ELSE ReadTileStates(files, i + 1, w, o,
                               Append(states, <<files[i], Trim(r.res.value.s)>>),
                               Append(cs, r.call)))

\* case "fvwm://state/tile-states", the catch of its try: every failure
\* reads as the empty object
tileStatesCatch(uri, error) ==
    Return(Contents(uri, "application/json", JsonRecord(<<>>)))

\* case "fvwm://state/tile-states"
state_tile_states(uri, w, o) ==
    Const(execAsync(<<"ls ">> \o StateDirPath, w, o), LAMBDA l :
      IF l.res.kind = "throw" THEN Done(tileStatesCatch(uri, l.res.error), <<l.call>>, l.world)
      ELSE Const(ReadTileStates(Split(Trim(l.res.value.stdout.s), "\n"), 1,
                                l.world, o, <<>>, <<l.call>>), LAMBDA rs :
             IF rs.res.kind = "throw"
             THEN Done(tileStatesCatch(uri, rs.res.error), rs.calls, rs.world)
             ELSE Done(Return(Contents(uri, "application/json", JsonRecord(rs.res.value))),
                       rs.calls, rs.world)))

\* case "fvwm://logs/smart-tile", the catch of its try: a failed read gives
\* a fixed text
logCatch(error) == <<"No debug log found">>

\* case "fvwm://logs/smart-tile"
logs_smart_tile(uri, w, o) ==
    Const(readFile(DebugLogPath, w, o), LAMBDA r :
      Done(Return(Contents(uri, "text/plain",
                           IF r.res.kind = "throw" THEN logCatch(r.res.error)
                           ELSE r.res.value.s)),
           <<r.call>>, r.world))

\* the case labels of readResource's switch (uri)
resourceCases ==
    { "fvwm://config/main", "fvwm://config/repo", "fvwm://docs/claude",
      "fvwm://docs/shortcuts", "fvwm://docs/smart-tiling",
      "fvwm://docs/readme", "fvwm://scripts/smart-tile",
      "fvwm://scripts/maximize-monitor", "fvwm://scripts/monitor-setup",
      "fvwm://scripts/toggle-keyboard", "fvwm://state/monitors",
      "fvwm://state/windows", "fvwm://state/current-desktop",
      "fvwm://state/tile-states", "fvwm://logs/smart-tile" }

\* a default that takes the uri for the path of a file and reads it
unknownResourceRead(uri, w) ==
    Done(Throw(FileError(<<uri>>)),
         <<Call("readFile", <<uri>>, Throw(FileError(<<uri>>)))>>, w)

\* the default of the switch: no resource of that uri
unknownResource(uri, w) ==
    Done(Throw(Error("Error", <<"Unknown resource URI: ", uri>>)), <<>>, w)

\* the switch of readResource
resourceSwitch(uri, w, o) ==
    LET desktop == <<"repo", "/", "utils", "/", "desktop-settings">>
        scripts == <<".fvwm", "/", "scripts", "/">>
    IN  CASE uri = "fvwm://config/main" ->
               fileResource(uri, <<".fvwm", "/", "config">>, "text/plain", w, o)
          [] uri = "fvwm://config/repo" ->
               fileResource(uri, desktop \o <<"/", "fvwm3rc", "/", "config">>,
                            "text/plain", w, o)
          [] uri = "fvwm://docs/claude" ->
               fileResource(uri, desktop \o <<"/", "CLAUDE.md">>, "text/markdown", w, o)
          [] uri = "fvwm://docs/shortcuts" ->
               fileResource(uri, <<".fvwm", "/", "ATAJOS-MOVIMIENTO.md">>,
                            "text/markdown", w, o)
          [] uri = "fvwm://docs/smart-tiling" ->
               fileResource(uri, desktop \o <<"/", "fvwm3rc", "/", "scripts", "/",
                                              "README-SMART-TILING.md">>,
                            "text/markdown", w, o)
          [] uri = "fvwm://docs/readme" ->
               fileResource(uri, desktop \o <<"/", "fvwm3rc", "/", "README.md">>,
                            "text/markdown", w, o)
          [] uri = "fvwm://scripts/smart-tile" ->
               fileResource(uri, scripts \o <<"smart-tile.sh">>, "text/x-shellscript", w, o)
          [] uri = "fvwm://scripts/maximize-monitor" ->
               fileResource(uri, scripts \o <<"maximize-current-monitor.sh">>,
                            "text/x-shellscript", w, o)
          [] uri = "fvwm://scripts/monitor-setup" ->
               fileResource(uri, scripts \o <<"monitor-setup.sh">>,
                            "text/x-shellscript", w, o)
          [] uri = "fvwm://scripts/toggle-keyboard" ->
               fileResource(uri, scripts \o <<"toggle-keyboard-layout.sh">>,
                            "text/x-shellscript", w, o)
          [] uri = "fvwm://state/monitors" -> state_monitors(uri, w, o)
          [] uri = "fvwm://state/windows" -> state_windows(uri, w, o)
          [] uri = "fvwm://state/current-desktop" -> state_current_desktop(uri, w, o)
          [] uri = "fvwm://state/tile-states" -> state_tile_states(uri, w, o)
          [] uri = "fvwm://logs/smart-tile" -> logs_smart_tile(uri, w, o)
          [] OTHER -> unknownResource(uri, w)

\* the catch around the switch: every error is thrown again, wrapped
resourceCatch(uri, error) ==
    Throw(Error("Error", <<"Failed to read resource ", uri, ": ">> \o ErrToStr(error)))

\* readResource(uri)
readResource(uri, w, o) ==
    Const(resourceSwitch(uri, w, o), LAMBDA r :
      IF r.res.kind = "throw"
      THEN Done(resourceCatch(uri, r.res.error), r.calls, r.world)
      ELSE r)

---------------------------------------------------------------------------
(* resources.ts getPrompt (the prompts module)                             *)

\* { messages: [{ role: "user", content: { type: "text", text } }] }
Messages(text) ==
    [messages |-> <<[role |-> "user", content |-> [type |-> "text", text |-> text]]>>]

\* const { ... } = args throws a TypeError when args is undefined
DestructureError ==
    Error("TypeError", <<"Cannot destructure property of 'args' as it is undefined.">>)

\* case "create-menu": items.map((item, idx) => `${idx + 1}. ${item}`)
NumberItems(items) == [i \in DOMAIN items |-> <<ToString(i), ". ">> \o items[i]]

\* a split that keeps the white space around each item
SplitItemsNoTrim(menu_items) == Split(menu_items, ",")

\* case "create-menu": menu_items.split(",").map((item) => item.trim())
SplitItems(menu_items) ==
    LET parts == Split(menu_items, ",") IN [i \in DOMAIN parts |-> Trim(parts[i])]

\* case "create-window-function"
prompt_create_window_function(args) ==
    LET
        function_name == Get(args, "function_name")
        description == Get(args, "description")
        text ==
            <<"Create a new FVWM3 window function called \"">>
            \o ToStr(function_name)
            \o <<"\" that ">>
            \o ToStr(description)
            \o <<".\n\nThe function should:\n1. Follow FVWM3 best practices\n2. Use DestroyFunc to allow reloading\n3. Use proper FVWM expansion variables (e.g., $[w.id], $[w.x], $[w.width])\n4. Include comments explaining the logic\n5. Handle edge cases appropriately\n\nCurrent FVWM3 setup context:\n- 3 monitors: DP-4 (1920x1080+0+0), HDMI-0 (1920x1080+1920+0), DP-2 (1920x1080+3840+0)\n- Desktop layout: 4 desktops (Principal, Web, Desarrollo, Media), 2x2 pages each\n- Panel reserves 120px on right edge (EwmhBaseStruts 0 120 0 0)\n- Focus policy: ClickToFocus\n\nProvide the complete function definition ready to be added to ~/.fvwm/config.">>
    IN  IF args.t = "undefined" THEN Throw(DestructureError)
        ELSE Return(Messages(text))

\* case "add-keybinding"
prompt_add_keybinding(args) ==
    LET
        key_combo == Get(args, "key_combo")
        action == Get(args, "action")
        context == IF Get(args, "context") = Undefined THEN Str(<<"A">>) ELSE Get(args, "context")
        text ==
            <<"Create a keybinding for ">>
            \o ToStr(key_combo)
            \o <<" that ">>
            \o ToStr(action)
            \o <<".\n\nRequirements:\n1. Check for conflicts with existing keybindings in the configuration\n2. Use proper FVWM Key syntax: Key <keyname> <context> <modifiers> <action>\n3. Context: ">>
            \o ToStr(context)
            \o <<" (R=root window, W=application window, A=all)\n4. Follow the project's keybinding conventions:\n   - Super (Mod4) for system/WM operations\n   - Alt for desktop/window movement\n   - Ctrl+Alt for window positioning (shuffle, grow)\n\nCurrent keybinding scheme:\n- Alt+q/w/a/s: Navigate to desktops\n- Alt+Shift+Q/W/A/S: Send window to desktop\n- Alt+Ctrl+q/w/a/s: Move window and follow\n- Super+Enter: Terminal\n- Super+W: Browser\n- Super+E: Editor\n- Super+Space: Toggle keyboard layout\n- Super+Arrow keys: Smart tiling\n\nProvide:\n1. The complete Key command\n2. List of any conflicts found\n3. Suggested alternatives if conflicts exist">>
    IN  IF args.t = "undefined" THEN Throw(DestructureError)
        ELSE Return(Messages(text))

\* case "create-tiling-script"
prompt_create_tiling_script(args) ==
    LET
        script_name == Get(args, "script_name")
        tiling_behavior == Get(args, "tiling_behavior")
        text ==
            <<"Create a bash script called \"">>
            \o ToStr(script_name)
            \o <<".sh\" that ">>
            \o ToStr(tiling_behavior)
            \o <<".\n\nThe script should:\n1. Follow the smart tiling architecture pattern from smart-tile.sh\n2. Use xrandr to detect monitor geometry\n3. Handle multi-monitor setups correctly\n4. Use FVWM expansion variables passed as arguments\n5. Generate ResizeMove commands with absolute pixel coordinates\n6. Include debug logging to ~/.fvwm/smart-tile-debug.log\n7. Manage state in ~/.fvwm/tile-state/ if needed\n\nMonitor setup:\n- DP-4: 1920x1080+0+0 (left)\n- HDMI-0: 1920x1080+1920+0 (center, primary)\n- DP-2: 1920x1080+3840+0 (right)\n\nScript should accept FVWM variables as arguments:\n$1 = window_id (e.g., 0x9200005)\n$2 = window_x\n$3 = window_y\n$4 = window_width\n$5 = window_height\n\nOutput should be FVWM commands that can be used with PipeRead.\n\nProvide:\n1. Complete bash script with shebang\n2. FVWM function definition to call the script\n3. Example keybinding\n4. Usage instructions">>
    IN  IF args.t = "undefined" THEN Throw(DestructureError)
        ELSE Return(Messages(text))

\* case "debug-fvwm-issue"
prompt_debug_fvwm_issue(args) ==
    LET
        issue_description == Get(args, "issue_description")
        text ==
            <<"I'm experiencing an issue with FVWM3: ">>
            \o ToStr(issue_description)
            \o <<"\n\nPlease provide a systematic debugging approach:\n\n1. **Information Gathering**\n   - What FVWM resources to check (fvwm://config/main, fvwm://logs/*, etc.)\n   - What tools to use (fvwm_get_window_info, fvwm_get_keybindings, etc.)\n   - What logs to examine\n\n2. **Diagnostic Steps**\n   - Commands to run for diagnosis\n   - Expected vs actual output\n   - Common causes for this type of issue\n\n3. **Testing**\n   - How to test in isolation\n   - How to verify the fix\n   - How to avoid breaking other functionality\n\n4. **Common Solutions**\n   - Based on similar issues in FVWM3\n   - Configuration fixes\n   - Workarounds if no direct fix exists\n\nCurrent setup context:\n- FVWM3 version: 1.1.5\n- 3 monitors, 4 desktops, ClickToFocus\n- Smart tiling system installed\n- Custom keybindings using QWAS scheme\n- RightPanel on primary monitor\n\nProvide step-by-step debugging instructions.">>
    IN  IF args.t = "undefined" THEN Throw(DestructureError)
        ELSE Return(Messages(text))

\* case "create-menu"
prompt_create_menu(args) ==
    LET
        menu_name == Get(args, "menu_name")
        menu_items == Get(args, "menu_items")
        items == SplitItems(menu_items.s)
        text ==
            <<"Create an FVWM menu called \"">>
            \o ToStr(menu_name)
            \o <<"\" with the following items:\n">>
            \o Join(NumberItems(items), "\n")
            \o <<"\n\nThe menu should:\n1. Use DestroyMenu to allow reloading\n2. Follow the project's color scheme (Dracula/Nord inspired dark theme):\n   - Colorset 0: Background (#282a36)\n   - Colorset 1: Inactive elements (#44475a)\n   - Colorset 2: Active highlights (#8be9fd)\n3. Include appropriate icons if available\n4. Have proper spacing and separators\n5. Use meaningful shortcuts/accelerators\n\nMenu syntax:\nDestroyMenu <menu_name>\nAddToMenu <menu_name> \"Title\" Title\n+ \"Item Text\" Action\n+ \"\" Nop  # Separator\n\nProvide:\n1. Complete menu definition\n2. Suggested keybinding to open the menu\n3. Example of how to add it to the root menu\n4. Usage notes">>
    IN  IF args.t = "undefined" THEN Throw(DestructureError)
        ELSE IF menu_items.t # "string"
        THEN Throw(Error("TypeError", <<"menu_items.split is not a function">>))
        ELSE Return(Messages(text))

\* the case labels of getPrompt's switch (name)
promptCases ==
    { "create-window-function", "add-keybinding", "create-tiling-script",
      "debug-fvwm-issue", "create-menu" }

\* a default that returns a message without text
unknownPromptEmpty(name) == Return(Messages(<<>>))

\* the default of the switch: no prompt of that name
unknownPrompt(name) == Throw(Error("Error", <<"Unknown prompt: ", name>>))

\* getPrompt(name, args)
getPrompt(name, args) ==
    CASE name = "create-window-function" -> prompt_create_window_function(args)
      [] name = "add-keybinding" -> prompt_add_keybinding(args)
      [] name = "create-tiling-script" -> prompt_create_tiling_script(args)
      [] name = "debug-fvwm-issue" -> prompt_debug_fvwm_issue(args)
      [] name = "create-menu" -> prompt_create_menu(args)
      [] OTHER -> unknownPrompt(name)

---------------------------------------------------------------------------
(* index.ts: the server and the requests it is sent                        *)

\* every object whose keys are among those of vals, each key k with a value of vals[k]
ArgObjects(vals) ==
    { Obj(m) : m \in UNION {
        {f \in [D -> UNION {vals[k] : k \in D}] : \A k \in D : f[k] \in vals[k]}
        : D \in SUBSET (DOMAIN vals) } }

NoProperties == [k \in {} |-> {}]

\* identifiers that no catalog lists under the category they are asked in
OtherToolNames == {"fvwm_quit", "create-menu"}
OtherUris == {"fvwm://config/other", "fvwm_restart"}
OtherPromptNames == {"create-panel", "fvwm_execute"}

\* the window ids tried: one per tile-state file, one without a file, one
\* that leaves the tile-state directory, one that leaves the home directory
\* and one that the shell expands
WindowIds ==
    {Str(TileNames[i]) : i \in DOMAIN TileNames}
    \cup {Str(<<"0x9">>), Str(<<"..", "/", "config">>),
          Str(<<"..", "/", "..", "/", "..", "/", "etc", "/", "passwd">>),
          Str(<<"*">>)}

\* the argument values tried for each tool
ToolArgValues(name) ==
    CASE name = "fvwm_execute" ->
           [command |-> {Str(<<"Restart">>), Str(<<"Exec xterm -T ", "\"", "a", "\"">>),
                         Str(<<"Echo ", "hi">>), Num(7)}]
      [] name = "fvwm_get_window_info" -> [window_id |-> {Str(TileNames[1])}]
      [] name = "fvwm_test_function" ->
           [function_name |-> {Str(<<"Smart", "Tile", "Left">>), Str(<<"Smart", "Tile">>)}]
      [] name = "fvwm_validate_config" ->
           [config_path |-> {Str(<<"/", "etc", "/", "fvwm", "/", "config">>)}]
      [] name = "fvwm_get_keybindings" -> [filter |-> {Str(<<"Smart">>), Str(<<"F1">>)}]
      [] name = "smart_tile_debug" -> [lines |-> {Num(0), Num(5)}]
      [] name = "smart_tile_state" ->
           [action |-> {Str(<<"view">>), Str(<<"clear">>), Str(<<"reset">>)},
            window_id |-> WindowIds]
      [] OTHER -> NoProperties

\* request.params.arguments of a call-tool request: absent only when empty
ToolArguments(name) ==
    ArgObjects(ToolArgValues(name))
    \cup (IF ToolArgValues(name) = NoProperties THEN {Undefined} ELSE {})

\* the argument values tried for each prompt
PromptArgValues(name) ==
    CASE name = "create-window-function" ->
           [function_name |-> {Str(<<"MoveToCenter">>)},
            description |-> {Str(<<"centers the window">>)}]
      [] name = "add-keybinding" ->
           [key_combo |-> {Str(<<"Super_L+m">>)}, action |-> {Str(<<"maximizes">>)},
            context |-> {Str(<<"W">>)}]
      [] name = "create-tiling-script" ->
           [script_name |-> {Str(<<"quarter-tile">>)},
            tiling_behavior |-> {Str(<<"tiles to a quarter">>)}]
      [] name = "debug-fvwm-issue" -> [issue_description |-> {Str(<<"no focus">>)}]
      [] name = "create-menu" ->
           [menu_name |-> {Str(<<"Ops">>)},
            menu_items |-> {Str(<<"Close", ",", " ", "Reload", ",", " ", "Exit">>),
                            Str(<<" ", "Close", " ">>), Str(<<>>)}]
      [] OTHER -> NoProperties

\* request.params.arguments of a get-prompt request: it may be absent
PromptArguments(name) == ArgObjects(PromptArgValues(name)) \cup {Undefined}

Request(category, target, arguments) ==
    [category |-> category, target |-> target, arguments |-> arguments]

\* no request is being handled: the last response has been sent
NoRequest == Request("none", "", Undefined)

\* the server is up and waits for a request (one request is handled at a time)
Idle == running = "up" /\ req = NoRequest

NoWorldTiles == [n \in {} |-> <<>>]

Init ==
    /\ world = [dir |-> TRUE, tile |-> NoWorldTiles, wm |-> {}]
    /\ running = "starting"
    /\ req = NoRequest
    /\ resp = Return(Undefined)
    /\ calls = <<>>

\* main: server.connect(transport) succeeds
Start ==
    /\ running = "starting"
    /\ running' = "up"
    /\ UNCHANGED <<world, req, resp, calls>>

\* main().catch: a failed start ends the process with process.exit(1)
StartFails ==
    /\ running = "starting"
    /\ running' = "exited"
    /\ UNCHANGED <<world, req, resp, calls>>

\* a list handler that leaves out the resources whose directory is missing
ListResourcesPresent ==
    /\ Idle
    /\ req' = Request("list-resources", "", Undefined)
    /\ resp' = Return([resources |->
                 SelectSeq(getResources,
                           LAMBDA d : world.dir \/ d.uri # "fvwm://state/tile-states")])
    /\ calls' = <<>>
    /\ UNCHANGED <<world, running>>

\* ListResourcesRequestSchema handler
ListResources ==
    /\ Idle
    /\ req' = Request("list-resources", "", Undefined)
    /\ resp' = Return([resources |-> getResources])
    /\ calls' = <<>>
    /\ UNCHANGED <<world, running>>

\* ReadResourceRequestSchema handler
ReadResource ==
    /\ Idle
    /\ \E uri \in ResourceUris \cup resourceCases \cup OtherUris, o \in Oracles :
          \E r \in {readResource(uri, world, o)} :
              /\ req' = Request("read-resource", uri, Undefined)
              /\ resp' = r.res
              /\ calls' = r.calls
              /\ world' = r.world
    /\ UNCHANGED running

\* ListToolsRequestSchema handler
ListTools ==
    /\ Idle
    /\ req' = Request("list-tools", "", Undefined)
    /\ resp' = Return([tools |-> getTools])
    /\ calls' = <<>>
    /\ UNCHANGED <<world, running>>

\* CallToolRequestSchema handler
CallTool ==
    /\ Idle
    /\ \E name \in ToolNames \cup toolCases \cup OtherToolNames, o \in Oracles :
          \E arguments \in ToolArguments(name) :
             \E r \in {executeTool(name, OrElse(arguments, EmptyObj), world, o)} :
                 /\ req' = Request("call-tool", name, arguments)
                 /\ resp' = r.res
                 /\ calls' = r.calls
                 /\ world' = r.world
    /\ UNCHANGED running

\* ListPromptsRequestSchema handler
ListPrompts ==
    /\ Idle
    /\ req' = Request("list-prompts", "", Undefined)
    /\ resp' = Return([prompts |-> getPrompts])
    /\ calls' = <<>>
    /\ UNCHANGED <<world, running>>

\* a prompt handler that reads the configuration first and fails without it
GetPromptReadsConfig ==
    /\ Idle
    /\ \E name \in PromptNames \cup promptCases \cup OtherPromptNames, o \in Oracles :
          \E arguments \in PromptArguments(name) :
             \E r \in {readFile(ConfigPath, world, o)} :
                /\ req' = Request("get-prompt", name, arguments)
                /\ resp' = IF r.res.kind = "throw" THEN r.res
                           ELSE getPrompt(name, arguments)
                /\ calls' = <<r.call>>
    /\ UNCHANGED <<world, running>>

\* GetPromptRequestSchema handler
GetPrompt ==
    /\ Idle
    /\ \E name \in PromptNames \cup promptCases \cup OtherPromptNames :
          \E arguments \in PromptArguments(name) :
             /\ req' = Request("get-prompt", name, arguments)
             /\ resp' = getPrompt(name, arguments)
             /\ calls' = <<>>
    /\ UNCHANGED <<world, running>>

\* a transport that ends the process when a handler threw
RespondExitOnFault ==
    /\ req # NoRequest
    /\ req' = NoRequest
    /\ resp' = Return(Undefined)
    /\ calls' = <<>>
    /\ running' = IF resp.kind = "throw" THEN "exited" ELSE running
    /\ UNCHANGED world

\* the transport sends the completion of the request to the client: the
\* returned value as a result, a thrown error as a protocol error
Respond ==
    /\ req # NoRequest
    /\ req' = NoRequest
    /\ resp' = Return(Undefined)
    /\ calls' = <<>>
    /\ UNCHANGED <<world, running>>

\* the smart-tile script (outside the server) records a window's tile state
TileWrite ==
    /\ world.dir
    /\ \E i \in DOMAIN TileNames :
          /\ TileNames[i] \notin DOMAIN world.tile
          /\ world' = [world EXCEPT !.tile =
                 [n \in DOMAIN world.tile \cup {TileNames[i]} |-> TileContent(n)]]
    /\ UNCHANGED <<running, req, resp, calls>>

\* the tile-state directory is removed or made (outside the server)
TileDir ==
    /\ world.tile = NoWorldTiles
    /\ world' = [world EXCEPT !.dir = ~world.dir]
    /\ UNCHANGED <<running, req, resp, calls>>

Next ==
    \/ Start
    \/ StartFails
    \/ ListResources
    \/ ReadResource
    \/ ListTools
    \/ CallTool
    \/ ListPrompts
    \/ GetPrompt
    \/ Respond
    \/ TileWrite
    \/ TileDir

Spec == Init /\ [][Next]_vars

---------------------------------------------------------------------------
(* Tile-state reads taken one await at a time                              *)

\* A handler runs until its next await; between two awaits of one request
\* the handlers of other requests run.  Here the two handlers that list the
\* tile-state directory and then read it file by file are taken one await at
\* a time, next to a smart_tile_state clear of another request.

\* the request of a tile-state read
ViewRequest == Request("call-tool", "smart_tile_state", Obj([action |-> Str(<<"view">>)]))
TileStatesRequest == Request("read-resource", "fvwm://state/tile-states", Undefined)

\* a read between two awaits: the files listed, the index of the next one,
\* the states read so far
Pending(files, i, states) ==
    [kind |-> "pending", files |-> files, i |-> i, states |-> states]

\* a turn of the loop that leaves out a file it cannot read
TileReadTurnSkipping(category, p, cs, w, o) ==
    IF p.files[p.i] = <<>>
    THEN [resp |-> Pending(p.files, p.i + 1, p.states), calls |-> cs]
    ELSE Const(readFile(pathJoin(StateDirPath, p.files[p.i]), w, o), LAMBDA r :
           IF r.res.kind = "throw"
           THEN [resp |-> Pending(p.files, p.i + 1, p.states), calls |-> Append(cs, r.call)]
           ELSE [resp |-> Pending(p.files, p.i + 1,
                            Append(p.states,
                                   IF category = "call-tool"
                                   THEN p.files[p.i] \o <<": ">> \o Trim(r.res.value.s)
                                   ELSE <<p.files[p.i], Trim(r.res.value.s)>>)),
                 calls |-> Append(cs, r.call)])

\* one turn of for (const file of files.trim().split("\n")): the file is
\* read and its state kept; a failed read goes to the catch of the try
TileReadTurn(category, p, cs, w, o) ==
    IF p.files[p.i] = <<>>
    THEN [resp |-> Pending(p.files, p.i + 1, p.states), calls |-> cs]
    ELSE Const(readFile(pathJoin(StateDirPath, p.files[p.i]), w, o), LAMBDA r :
           IF r.res.kind = "throw"
           THEN [resp |-> IF category = "call-tool" THEN viewCatch(r.res.error)
                          ELSE tileStatesCatch("fvwm://state/tile-states", r.res.error),
                 calls |-> Append(cs, r.call)]
           ELSE [resp |-> Pending(p.files, p.i + 1,
                            Append(p.states,
                                   IF category = "call-tool"
                                   THEN p.files[p.i] \o <<": ">> \o Trim(r.res.value.s)
                                   ELSE <<p.files[p.i], Trim(r.res.value.s)>>)),
                 calls |-> Append(cs, r.call)])

\* smart_tile_state view without window_id, up to its first await: ls -1
ViewList ==
    /\ Idle
    /\ \E o \in Oracles :
          \E l \in {execAsync(<<"ls -1 ">> \o StateDirPath
                              \o <<" 2>/dev/null || echo \"\"">>, world, o)} :
             /\ req' = ViewRequest
             /\ calls' = <<l.call>>
             /\ resp' = IF l.res.kind = "throw" THEN viewCatch(l.res.error)
                        ELSE IF Trim(l.res.value.stdout.s) = <<>>
                        THEN Return(TextResult(<<"No tile states found">>))
                        ELSE Pending(Split(Trim(l.res.value.stdout.s), "\n"), 1, <<>>)
    /\ UNCHANGED <<world, running>>

\* readResource of fvwm://state/tile-states, up to its first await: ls
TileStatesList ==
    /\ Idle
    /\ \E o \in Oracles :
          \E l \in {execAsync(<<"ls ">> \o StateDirPath, world, o)} :
             /\ req' = TileStatesRequest
             /\ calls' = <<l.call>>
             /\ resp' = IF l.res.kind = "throw"
                        THEN tileStatesCatch("fvwm://state/tile-states", l.res.error)
                        ELSE Pending(Split(Trim(l.res.value.stdout.s), "\n"), 1, <<>>)
    /\ UNCHANGED <<world, running>>

\* the read goes on to its next await: one file is read
TileRead ==
    /\ resp.kind = "pending"
    /\ resp.i <= Len(resp.files)
    /\ \E o \in Oracles :
          \E t \in {TileReadTurn(req.category, resp, calls, world, o)} :
             /\ resp' = t.resp
             /\ calls' = t.calls
    /\ UNCHANGED <<world, running, req>>

\* the loop is over: the handler returns what it read
TileReadDone ==
    /\ resp.kind = "pending"
    /\ resp.i > Len(resp.files)
    /\ resp' = IF req.category = "call-tool"
               THEN Return(TextResult(Join(resp.states, "\n")))
               ELSE Return(Contents(req.target, "application/json", JsonRecord(resp.states)))
    /\ UNCHANGED <<world, running, req, calls>>

\* the handler of another request runs smart_tile_state clear, for one
\* window or for all
ConcurrentClear ==
    /\ running = "up"
    /\ \E window_id \in {Undefined} \cup {Str(TileNames[i]) : i \in DOMAIN TileNames},
          o \in Oracles :
          \E r \in {tile_state_clear(window_id, world, o)} :
             /\ r.world # world
             /\ world' = r.world
    /\ UNCHANGED <<running, req, resp, calls>>

\* the response of a finished read is sent
ReadRespond ==
    /\ req # NoRequest
    /\ resp.kind # "pending"
    /\ req' = NoRequest
    /\ resp' = Return(Undefined)
    /\ calls' = <<>>
    /\ UNCHANGED <<world, running>>

RaceNext ==
    \/ Start
    \/ ViewList
    \/ TileStatesList
    \/ TileRead
    \/ TileReadDone
    \/ ConcurrentClear
    \/ ReadRespond
    \/ TileWrite
    \/ TileDir

RaceSpec == Init /\ [][RaceNext]_vars

---------------------------------------------------------------------------
(* smart_tile_state calls that follow one another                          *)

\* A clear and the view that follows it, with no other writer of the
\* tile-state directory between the two calls: files are written only
\* before the clear is called.

\* the arguments of the smart_tile_state calls with this action
StateArguments(action) ==
    {a \in ToolArguments("smart_tile_state") : Get(a, "action") = Str(<<action>>)}

\* callTool("smart_tile_state", {action: "clear", ...})
ClearCall ==
    /\ Idle
    /\ \E arguments \in StateArguments("clear"), o \in Oracles :
          \E r \in {executeTool("smart_tile_state", arguments, world, o)} :
             /\ req' = Request("call-tool", "smart_tile_state", arguments)
             /\ resp' = r.res
             /\ calls' = r.calls
             /\ world' = r.world
    /\ UNCHANGED running

\* callTool("smart_tile_state", {action: "view", ...}) as the call that
\* follows a clear
ViewCall ==
    /\ running = "up"
    /\ req.category = "call-tool" /\ req.arguments \in StateArguments("clear")
    /\ \E arguments \in StateArguments("view"), o \in Oracles :
          \E r \in {executeTool("smart_tile_state", arguments, world, o)} :
             /\ req' = Request("call-tool", "smart_tile_state", arguments)
             /\ resp' = r.res
             /\ calls' = r.calls
             /\ world' = r.world
    /\ UNCHANGED running

\* the smart-tile script records a state while no call is being followed
TileWriteIdle == req = NoRequest /\ TileWrite

ClearNext ==
    \/ Start
    \/ TileWriteIdle
    \/ ClearCall
    \/ ViewCall
    \/ Respond

ClearSpec == Init /\ [][ClearNext]_vars

---------------------------------------------------------------------------
(* Properties                                                              *)

IsCallTool == req.category = "call-tool"
IsReadResource == req.category = "read-resource"
IsGetPrompt == req.category = "get-prompt"

\* the handler returned a value / threw an error to the transport
Returned == resp.kind = "return"
Faulted == resp.kind = "throw"

\* an adapter call of the request failed; an adapter was called and none failed
AdapterFailed == \E i \in DOMAIN calls : ~calls[i].ok
AdaptersSucceeded == calls # <<>> /\ \A i \in DOMAIN calls : calls[i].ok

\* a tool result carrying isError: true and one text block that is not empty
IsErrorEnvelope(v) ==
    /\ "isError" \in DOMAIN v /\ v.isError = TRUE
    /\ Len(v.content) = 1
    /\ v.content[1].type = "text"
    /\ v.content[1].text # <<>>

\* a tool result with one text block and no error flag
IsPlainEnvelope(v) ==
    /\ "isError" \notin DOMAIN v
    /\ Len(v.content) = 1
    /\ v.content[1].type = "text"

\* a key that the arguments of the request do not hold
Absent(k) == req.arguments = Undefined \/ k \notin DOMAIN req.arguments.m

\* the request leaves out an argument the tool's inputSchema requires
MissingToolArgument ==
    /\ req.target \in ToolNames
    /\ \E k \in Range(Descriptor(getTools, "name", req.target).inputSchema.required) :
          Absent(k)

\* the request leaves out an argument the prompt declares required: true
MissingPromptArgument ==
    /\ req.target \in PromptNames
    /\ LET as == Descriptor(getPrompts, "name", req.target).arguments
       IN  \E i \in DOMAIN as : as[i].required /\ Absent(as[i].name)

\* C1: for every tool name and arguments, callTool returns an envelope and
\* never throws, and every failure during the call (unknown name, missing
\* required argument, failed adapter) is returned with isError = true and a
\* text block.
C1_EveryFailureFlagged ==
    IsCallTool =>
        /\ Returned
        /\ (req.target \notin ToolNames \/ MissingToolArgument \/ AdapterFailed)
               => IsErrorEnvelope(resp.value)

\* C2: callTool with a name outside the tool catalog returns isError = true
\* with a text that holds the unknown name, throws nothing and runs no adapter.
C2_UnknownToolEnvelope ==
    (IsCallTool /\ req.target \notin ToolNames) =>
        /\ Returned
        /\ IsErrorEnvelope(resp.value)
        /\ \E i \in DOMAIN resp.value.content[1].text :
              resp.value.content[1].text[i] = req.target
        /\ calls = <<>>

C2_Witness ==
    /\ IsCallTool /\ req.target = "fvwm_quit"
    /\ Returned /\ IsErrorEnvelope(resp.value)

\* C3: callTool without a field the tool's inputSchema requires returns
\* isError = true with a text block, before any adapter is invoked.
C3_MissingRequiredFlagged ==
    (IsCallTool /\ MissingToolArgument) =>
        /\ Returned
        /\ IsErrorEnvelope(resp.value)
        /\ calls = <<>>

\* the stderr of the failed external process of the request has text
FailedWithStderr ==
    \E i \in DOMAIN calls :
        /\ ~calls[i].ok
        /\ calls[i].stderr.t = "string"
        /\ Trim(calls[i].stderr.s) # <<>>

C5_AdapterFailureFlagged ==
    (IsCallTool /\ req.target \in ToolNames /\ AdapterFailed) =>
        Returned /\ IsErrorEnvelope(resp.value)

\* the message of the thrown error tells of an unknown resource uri
UnknownUriFault ==
    Faulted /\ Includes(resp.error.message, <<"Unknown resource URI: ", req.target>>)

\* C6: readResource with a uri outside the resource catalog throws a fault
\* that names the unknown uri, which no fault of a failed adapter does, and
\* no adapter is called for it.
C6_UnknownUriFaults ==
    IsReadResource =>
        /\ req.target \notin ResourceUris => (UnknownUriFault /\ calls = <<>>)
        /\ (req.target \in ResourceUris /\ Faulted) => (~UnknownUriFault /\ AdapterFailed)

C6_Witness ==
    IsReadResource /\ req.target = "fvwm://config/other" /\ UnknownUriFault

\* C7: for every uri of the catalog, a failed adapter call makes readResource
\* throw a fault; it never returns a content block instead, and the adapter
\* is called once.
C7_AdapterFailureFaults ==
    (IsReadResource /\ req.target \in ResourceUris /\ AdapterFailed) =>
        Faulted /\ Len(calls) = 1

\* the text readResource builds from what the adapters of the request gave:
\* the output itself, or for the three JSON resources its encoding
ResourceText ==
    CASE req.target = "fvwm://state/windows" ->
           JsonWindows(Split(Trim(calls[1].out.s), "\n"))
      [] req.target = "fvwm://state/current-desktop" ->
           JsonState(Trim(calls[1].out.s))
      [] req.target = "fvwm://state/tile-states" ->
           JsonRecord([i \in 1..(Len(calls) - 1) |->
                          <<BaseName(calls[i + 1].arg), Trim(calls[i + 1].out.s)>>])
      [] OTHER -> calls[1].out.s

\* the one content block of the response carries the requested uri and the
\* mimeType that listResources declares for it
OneDeclaredBlock ==
    /\ Len(resp.value.contents) = 1
    /\ resp.value.contents[1].uri = req.target
    /\ resp.value.contents[1].mimeType
           = Descriptor(getResources, "uri", req.target).mimeType

C9_UnknownPromptFaults ==
    /\ (IsGetPrompt /\ req.target \notin PromptNames) =>
           /\ Faulted
           /\ resp.error.message = <<"Unknown prompt: ", req.target>>
    /\ (IsCallTool /\ req.target \notin ToolNames) => Returned

C9_Witness ==
    /\ IsGetPrompt /\ req.target = "create-panel" /\ req.arguments = Undefined
    /\ Faulted

\* C10: getPrompt without an argument the prompt declares required (or
\* without any arguments) fails and returns no rendered message.
C10_RequiredArgumentsChecked ==
    (IsGetPrompt /\ MissingPromptArgument) => Faulted

\* the request is getPrompt("create-menu", ...) with a string for menu_items
IsCreateMenu ==
    /\ IsGetPrompt /\ req.target = "create-menu"
    /\ ~Absent("menu_items") /\ req.arguments.m["menu_items"].t = "string"

\* the lines of the rendered text between its heading and "The menu should:"
MenuLines ==
    LET text == resp.value.messages[1].content.text
    IN  Split(SubSeq(text, 4, Len(text) - 1), "\n")

\* a string without its white space
Squeeze(str) == SelectSeq(str, LAMBDA c : c \notin WhiteSpace)

\* the rests of the lines, each after its number, with commas between them
RECURSIVE MenuLineRests(_, _)
MenuLineRests(lines, i) ==
    IF i > Len(lines) THEN <<>>
    ELSE (IF i = 1 THEN <<>> ELSE <<",">>)
         \o SubSeq(lines[i], 3, Len(lines[i])) \o MenuLineRests(lines, i + 1)

\* C11: getPrompt("create-menu", ...) with menu_items a list of n items
\* separated by commas returns one user message whose text holds n lines,
\* line k being "k. " and the k-th item without the white space around it,
\* in the order given.
C11_MenuItemsEnumerated ==
    IsCreateMenu =>
        /\ Returned
        /\ Len(resp.value.messages) = 1
        /\ resp.value.messages[1].role = "user"
        /\ Len(MenuLines) = Count(req.arguments.m["menu_items"].s, ",") + 1
        /\ \A k \in DOMAIN MenuLines :
              /\ Len(MenuLines[k]) >= 2
              /\ MenuLines[k][1] = ToString(k) /\ MenuLines[k][2] = ". "
              /\ Len(MenuLines[k]) > 2 =>
                    /\ MenuLines[k][3] \notin WhiteSpace
                    /\ MenuLines[k][Len(MenuLines[k])] \notin WhiteSpace
        /\ MenuLineRests(MenuLines, 1) = Squeeze(req.arguments.m["menu_items"].s)

C11_Witness ==
    /\ IsCreateMenu /\ Returned
    /\ req.arguments.m["menu_items"].s = <<"Close", ",", " ", "Reload", ",", " ", "Exit">>
    /\ MenuLines = << <<"1", ". ", "Close">>, <<"2", ". ", "Reload">>, <<"3", ". ", "Exit">> >>


\* a list handler has answered
IsListResources == req.category = "list-resources"
IsListTools == req.category = "list-tools"
IsListPrompts == req.category = "list-prompts"

\* no two descriptors of a listed catalog have the same value of the field
Distinct(catalog, field) ==
    \A i, j \in DOMAIN catalog : i # j => catalog[i][field] # catalog[j][field]

\* C12: in each of the three catalogs that the list handlers return, the
\* keys are pairwise distinct: no two resources share a uri, no two tools a
\* name, no two prompts a name.
C12_CatalogKeysDistinct ==
    /\ IsListResources => Distinct(resp.value.resources, "uri")
    /\ IsListTools => Distinct(resp.value.tools, "name")
    /\ IsListPrompts => Distinct(resp.value.prompts, "name")

C12_Witness ==
    /\ IsListPrompts /\ Returned
    /\ Len(resp.value.prompts) = 5
    /\ Cardinality({resp.value.prompts[i].name : i \in 1..5}) = 5

\* the response is the one of the default case of the tool switch
UnknownToolPath ==
    /\ Returned
    /\ resp.value = ErrorResult(<<"Error executing tool '", req.target, "': ",
                                  "Error", ": ", "Unknown tool: ", req.target>>)

\* the response is the one of the default case of the prompt switch
UnknownPromptPath ==
    Faulted /\ resp.error.message = <<"Unknown prompt: ", req.target>>

\* C13: catalog and dispatch agree in each category: the identifiers the
\* switch has a case for are the keys the catalog lists, and a request takes
\* the unknown-identifier path exactly when its identifier is not a key of
\* the catalog.
C13_CatalogMatchesDispatch ==
    /\ toolCases = ToolNames
    /\ resourceCases = ResourceUris
    /\ promptCases = PromptNames
    /\ IsCallTool => (UnknownToolPath <=> req.target \notin ToolNames)
    /\ IsReadResource => (UnknownUriFault <=> req.target \notin ResourceUris)
    /\ IsGetPrompt => (UnknownPromptPath <=> req.target \notin PromptNames)

C13_Witness ==
    /\ IsCallTool /\ req.target = "fvwm_get_desktop_info"
    /\ req.target \in ToolNames /\ ~UnknownToolPath
    /\ calls # <<>>

\* the keys of a listed catalog, in the order listed
KeySeq(catalog, field) == [i \in DOMAIN catalog |-> catalog[i][field]]

\* C14: the catalogs are read-only: whatever requests were handled before
\* and whatever the external state, listResources, listTools and listPrompts
\* return without a fault the full catalog, with the same length and the
\* same keys in declaration order.
C14_CatalogsReadOnly ==
    /\ IsListResources =>
          /\ Returned /\ resp.value.resources = getResources
          /\ Len(resp.value.resources) = 15
          /\ KeySeq(resp.value.resources, "uri")[1] = "fvwm://config/main"
          /\ KeySeq(resp.value.resources, "uri")[15] = "fvwm://logs/smart-tile"
    /\ IsListTools =>
          /\ Returned /\ resp.value.tools = getTools
          /\ Len(resp.value.tools) = 10
          /\ KeySeq(resp.value.tools, "name")[1] = "fvwm_execute"
          /\ KeySeq(resp.value.tools, "name")[10] = "fvwm_get_desktop_info"
    /\ IsListPrompts =>
          /\ Returned /\ resp.value.prompts = getPrompts
          /\ Len(resp.value.prompts) = 5
          /\ KeySeq(resp.value.prompts, "name")[1] = "create-window-function"
          /\ KeySeq(resp.value.prompts, "name")[5] = "create-menu"

\* a catalog listed after a tool call changed the window manager and while
\* the tile-state directory is missing
C14_Witness ==
    /\ IsListResources /\ Returned
    /\ world.wm # {} /\ ~world.dir
    /\ Len(resp.value.resources) = 15

\* while a request is handled the server is up and its response can be sent;
\* an idle server that is up can take the next request; an exited process
\* handles nothing
SessionServes ==
    /\ running \in {"starting", "up", "exited"}
    /\ running = "exited" => req = NoRequest
    /\ req # NoRequest => (running = "up" /\ ENABLED Respond)
    /\ (running = "up" /\ req = NoRequest) => ENABLED CallTool

\* C15: a failure while handling a request never ends the session: through
\* every request, whatever its outcome, the server stays up, its response
\* is sent and the next request can be taken; the process exits only from a
\* failed start.
C15_FailureKeepsSession ==
    /\ []SessionServes
    /\ [][running = "up" => running' = "up"]_vars
    /\ [][(running # "exited" /\ running' = "exited") => running = "starting"]_vars

\* a request has failed (a fault, or a tool call whose adapter failed) and
\* the server is up
C15_Witness ==
    /\ running = "up"
    /\ \/ IsReadResource /\ Faulted
       \/ IsCallTool /\ AdapterFailed
       \/ IsGetPrompt /\ Faulted

\* a path lies under the user's home directory
UnderHome(path) == Under(Segments(path), Segments(homedir))

\* C16: file system access is limited to the user's home directory: for
\* every request and every argument value, each file the server reads and
\* each file it removes lies under the home directory.
C16_FilesUnderHome ==
    \A i \in DOMAIN calls :
        /\ calls[i].op = "readFile" => UnderHome(calls[i].arg)
        /\ (calls[i].op = "exec" /\ Head(calls[i].arg) = "rm -f ")
               => UnderHome(Tail(calls[i].arg))

\* the same for the paths made from smart_tile_state's window_id alone
C16_WindowIdUnderHome ==
    (IsCallTool /\ req.target = "smart_tile_state") => C16_FilesUnderHome

\* C17: resources are read-only access: for every uri, in the catalog or
\* not, readResource leaves the external state as it is (the tile-state
\* files and directory, and the window manager, which gets no state-changing
\* command); of the server's steps only a tool call may change it.
C17_ResourcesReadOnly ==
    [][(req' # req /\ req'.category # "call-tool") => world' = world]_vars

\* the tile-states resource has listed and read every tile-state file, and
\* the files are still there
C17_Witness ==
    /\ IsReadResource /\ Returned
    /\ req.target = "fvwm://state/tile-states"
    /\ Len(calls) = 1 + MaxTileFiles
    /\ \A i \in DOMAIN TileNames : TileNames[i] \in DOMAIN world.tile

\* C18: the template renderer is a pure function: in every state, whatever
\* requests ran before and whatever the files and the window manager hold,
\* the result of getPrompt is the one value that its name and arguments
\* determine, and no adapter is invoked for it.
C18_PromptDependsOnArguments ==
    IsGetPrompt =>
        /\ calls = <<>>
        /\ resp = getPrompt(req.target, req.arguments)

\* a prompt rendered after tool calls changed the window manager and while
\* tile-state files exist
C18_Witness ==
    /\ IsGetPrompt /\ Returned
    /\ req.target = "debug-fvwm-issue"
    /\ world.wm # {} /\ world.tile # NoWorldTiles

\* the configuration defines a function of exactly this name: DestroyFunc or
\* AddToFunc, the name, and then white space or the end of the text
DefinesFunction(config, fn) ==
    \E i \in DOMAIN config :
        /\ config[i] \in {"DestroyFunc ", "AddToFunc "}
        /\ i + Len(fn) <= Len(config)
        /\ SubSeq(config, i + 1, i + Len(fn)) = fn
        /\ (i + Len(fn) = Len(config) \/ config[i + Len(fn) + 1] \in WhiteSpace)

\* C19: fvwm_test_function reports "exists in configuration" if and only if
\* the configuration it read defines a function of exactly the name asked
\* for; a name that is only the beginning of a defined function's name is
\* reported as NOT found.
C19_ExactFunctionName ==
    (/\ IsCallTool /\ req.target = "fvwm_test_function"
     /\ ~Absent("function_name") /\ AdaptersSucceeded)
    => /\ Returned
       /\ Includes(resp.value.content[1].text, <<"' exists in configuration">>)
             <=> DefinesFunction(calls[1].out.s, req.arguments.m["function_name"].s)

\* a tile-state read taken one await at a time has returned
ReadFinished == req \in {ViewRequest, TileStatesRequest} /\ resp.kind = "return"

\* the file names the read listed: the lines of what ls printed
ListedFiles ==
    IF calls[1].ok THEN SelectSeq(Split(Trim(calls[1].out.s), "\n"), LAMBDA f : f # <<>>)
    ELSE <<>>

\* the answer that holds every listed file, each with the state read for it
FullAnswer ==
    /\ Len(calls) = 1 + Len(ListedFiles)
    /\ \A i \in DOMAIN calls : calls[i].ok
    /\ IF req = ViewRequest
       THEN /\ ListedFiles # <<>>
            /\ resp.value = TextResult(Join([k \in DOMAIN ListedFiles |->
                                ListedFiles[k] \o <<": ">> \o Trim(calls[k + 1].out.s)], "\n"))
       ELSE resp.value = Contents(req.target, "application/json",
                             JsonRecord([k \in DOMAIN ListedFiles |->
                                <<ListedFiles[k], Trim(calls[k + 1].out.s)>>]))

\* the answer that holds no state
EmptyAnswer ==
    IF req = ViewRequest
    THEN resp.value = TextResult(<<"No tile states found">>)
    ELSE resp.value = Contents(req.target, "application/json", JsonRecord(<<>>))

\* C20: a tile-state read (smart_tile_state view without window_id, or the
\* tile-states resource) that runs next to a smart_tile_state clear never
\* ends in a fault or an isError result and never reports a part of the
\* states: it returns every file it listed, or the empty answer, also when
\* files vanish between the listing and the reads.
C20_ReadAllOrNothing ==
    /\ req \in {ViewRequest, TileStatesRequest} => resp.kind \in {"pending", "return"}
    /\ ReadFinished =>
          /\ "isError" \notin DOMAIN resp.value
          /\ FullAnswer \/ EmptyAnswer

\* two files were listed, the first was read, the second had vanished, and
\* the read gave the empty answer
C20_Witness ==
    /\ ReadFinished /\ req = ViewRequest
    /\ Len(ListedFiles) = 2 /\ Len(calls) = 3
    /\ calls[2].ok /\ ~calls[3].ok
    /\ EmptyAnswer

\* the action argument of the request, undefined when it is absent
ActionArgument == Get(OrElse(req.arguments, EmptyObj), "action")

\* C22: smart_tile_state with an action that is neither "view" nor "clear",
\* an absent action included, returns an isError = true envelope whose text
\* names the unknown action, and reads or removes no state file: no adapter
\* is called.
C22_UnknownActionFlagged ==
    (/\ IsCallTool /\ req.target = "smart_tile_state"
     /\ ActionArgument \notin {Str(<<"view">>), Str(<<"clear">>)})
    => /\ Returned
       /\ IsErrorEnvelope(resp.value)
       /\ Includes(resp.value.content[1].text,
                   <<"Unknown action: ">> \o ToStr(ActionArgument))
       /\ calls = <<>>

\* an unknown action asked for a window whose state file exists
C22_Witness ==
    /\ IsCallTool /\ req.target = "smart_tile_state"
    /\ ActionArgument = Str(<<"reset">>)
    /\ ~Absent("window_id") /\ req.arguments.m["window_id"].s \in DOMAIN world.tile
    /\ IsErrorEnvelope(resp.value)

\* an argument of a request, undefined when it is absent
ArgumentOf(r, k) == Get(OrElse(r.arguments, EmptyObj), k)

\* the request is a smart_tile_state call with this action
IsStateCall(r, action) ==
    /\ r.category = "call-tool" /\ r.target = "smart_tile_state"
    /\ ArgumentOf(r, "action") = Str(<<action>>)

\* a clear without window_id has answered "Cleared all tile states"
ClearedAll ==
    /\ IsStateCall(req, "clear") /\ ~Truthy(ArgumentOf(req, "window_id"))
    /\ resp = Return(TextResult(<<"Cleared all tile states">>))

\* a view, with or without a window_id, that follows a clear of all states
\* answers "No tile states found"
C21_ViewAfterClearAll ==
    [][(ClearedAll /\ IsStateCall(req', "view"))
       => resp' = Return(TextResult(<<"No tile states found">>))]_vars

\* a clear with a window_id leaves the state of every other window as it was
C21_ClearOneKeepsOthers ==
    [][(/\ req = NoRequest /\ IsStateCall(req', "clear")
        /\ Truthy(ArgumentOf(req', "window_id")))
       => \A n \in DOMAIN world.tile :
             n # ArgumentOf(req', "window_id").s
                => (n \in DOMAIN world'.tile /\ world'.tile[n] = world.tile[n])]_vars

\* C21: smart_tile_state clear resets all states: after a clear without
\* window_id has answered "Cleared all tile states", and with no other
\* writer in between, a view with or without a window_id answers
\* "No tile states found"; a clear with a window_id removes only that
\* window's state and leaves every other window's state as it was.
C21_ClearResetsStates ==
    /\ C21_ViewAfterClearAll
    /\ C21_ClearOneKeepsOthers

====
